---- MODULE Spec2Model ----
(***************************************************************************)
(* Row comparison of cudf::exp (cpp/include/cudf/table/row_operators.cuh): *)
(* element_relational_comparator<has_nulls> and                            *)
(* row_lexicographic_comparator<has_nulls>.                                *)
(*                                                                         *)
(* Row and column indices are the 0-based indices of the C++ code; the     *)
(* sequences that hold columns and elements are read at index + 1.         *)
(***************************************************************************)
EXTENDS Integers, Sequences, FiniteSets, TLC

(***************************************************************************)
(* Bounds of the model.                                                    *)
(***************************************************************************)
\* Largest number of columns of a table.
MaxCols == 2
\* Number of rows of the single-table inputs (three rows make a triple).
NumRows == 3
\* Number of device threads that invoke the comparator concurrently.
NumThreads == 2

(***************************************************************************)
(* Enumerations.                                                           *)
(***************************************************************************)
LESS == "LESS"
EQUIVALENT == "EQUIVALENT"
GREATER == "GREATER"
weak_ordering == {LESS, EQUIVALENT, GREATER}

LOWEST == "LOWEST"
HIGHEST == "HIGHEST"
null_size == {LOWEST, HIGHEST}

ASCENDING == "ASCENDING"
DESCENDING == "DESCENDING"
order == {ASCENDING, DESCENDING}

(***************************************************************************)
(* Element types.  FLOAT64 stands for the relationally comparable element  *)
(* types: its operator< is that of an IEEE double, under which NaN is      *)
(* unordered; a FLOAT64 column without NaN orders like an integer column.  *)
(* INT32 is a relationally comparable type whose operator< is total.       *)
(* OPAQUE stands for an element type without operator<.                    *)
(***************************************************************************)
INT32 == "INT32"
FLOAT64 == "FLOAT64"
OPAQUE == "OPAQUE"

\* The stored value that stands for the NaN of a FLOAT64 element.
NaN == -1

\* cudf::is_relationally_comparable<Element, Element>().
is_relationally_comparable(type) == type \in {INT32, FLOAT64}

\* lhs_element < rhs_element, the native ordering of the element type.
native_less(type, x, y) ==
    IF type = FLOAT64 THEN x # NaN /\ y # NaN /\ x < y ELSE x < y

\* lhs_element == rhs_element, the native equality of the element type.
native_equal(type, x, y) ==
    IF type = FLOAT64 THEN x # NaN /\ y # NaN /\ x = y ELSE x = y

(***************************************************************************)
(* Column and table views.  A column view is a record                      *)
(*   [type, nullable, valid, data]                                         *)
(* where valid is the validity bitmap (<<>> when the view has none) and    *)
(* data the element buffer.  A table view is a sequence of column views.   *)
(***************************************************************************)
num_columns(table) == Len(table)

column(table, i) == table[i + 1]

num_rows(table) == IF Len(table) = 0 THEN 0 ELSE Len(table[1].data)

\* column_device_view::nullable(): the view carries a validity bitmap.
nullable(col) == col.nullable

\* column_device_view::is_null(element_index); defined only on a nullable view.
is_null(col, element_index) == ~col.valid[element_index + 1]

\* column_device_view::data<Element>()[element_index].
data(col, element_index) == col.data[element_index + 1]

(***************************************************************************)
(* element_relational_comparator<has_nulls>::operator()                    *)
(***************************************************************************)
\* Faulty variant of validity_queried: the has_nulls template flag is ignored.
validity_queried_ignoring_has_nulls(has_nulls, col) == nullable(col)

\* Whether is_null() is evaluated on one operand: `if (has_nulls)` and the
\* short circuit of `col.nullable() and col.is_null(index)`.
validity_queried(has_nulls, col) == has_nulls /\ nullable(col)

\* bool const lhs_is_null{lhs.nullable() and lhs.is_null(lhs_element_index)}
\* under `if (has_nulls)`; false when no null check is made.
operand_is_null(has_nulls, col, element_index) ==
    validity_queried(has_nulls, col) /\ is_null(col, element_index)

\* Faulty variant of null_vs_value: the policy test is inverted.
null_vs_value_inverted(size_of_nulls) ==
    IF size_of_nulls = LOWEST THEN GREATER ELSE LESS

\* null <? x : (size_of_nulls == null_size::LOWEST) ? LESS : GREATER
null_vs_value(size_of_nulls) ==
    IF size_of_nulls = LOWEST THEN LESS ELSE GREATER

\* x <? null : (size_of_nulls == null_size::HIGHEST) ? LESS : GREATER
value_vs_null(size_of_nulls) ==
    IF size_of_nulls = HIGHEST THEN LESS ELSE GREATER

\* Faulty variant of compare_elements: `not (rhs < lhs)` is taken for `lhs < rhs`.
compare_elements_less_or_equal(type, lhs_element, rhs_element) ==
    IF ~native_less(type, rhs_element, lhs_element) THEN LESS ELSE GREATER

\* The comparison of two stored values by the element type's operator<.
compare_elements(type, lhs_element, rhs_element) ==
    IF native_less(type, lhs_element, rhs_element) THEN LESS
    ELSE IF native_less(type, rhs_element, lhs_element) THEN GREATER
    ELSE EQUIVALENT

\* The overload for relationally comparable element types.
element_relational_comparator(has_nulls, type, lhs, lhs_element_index, rhs, rhs_element_index, size_of_nulls) ==
    LET lhs_is_null == operand_is_null(has_nulls, lhs, lhs_element_index)
        rhs_is_null == operand_is_null(has_nulls, rhs, rhs_element_index)
    IN  IF lhs_is_null /\ rhs_is_null THEN EQUIVALENT
        ELSE IF lhs_is_null THEN null_vs_value(size_of_nulls)
        ELSE IF rhs_is_null THEN value_vs_null(size_of_nulls)
        ELSE compare_elements(type, data(lhs, lhs_element_index),
                              data(rhs, rhs_element_index))

(***************************************************************************)
(* Overload selection by the type dispatcher.  The dispatcher of a build   *)
(* has a case for each element type of a closed set, and each case         *)
(* instantiates operator()<Element> with the arguments the row comparator  *)
(* forwards; a type tag outside the set takes the default branch.          *)
(***************************************************************************)
\* The closed sets of the builds: with and without a case for an element
\* type that has no relational ordering.
Dispatchers == {{INT32, FLOAT64}, {INT32, FLOAT64, OPAQUE}}

\* Parameters of the overload enabled for relationally comparable types:
\* lhs, lhs_element_index, rhs, rhs_element_index, size_of_nulls.
ComparableOverloadArity == 5
\* Parameters of the overload enabled for the other types:
\* lhs, lhs_element_index, rhs, rhs_element_index.
UncomparableOverloadArity == 4
\* Arguments the row comparator forwards through the dispatcher:
\* column, index, column, index, _size_of_nulls.
ForwardedArguments == 5

\* What the dispatch on an element type can come to, besides a
\* weak_ordering: release_assert in the uncomparable overload, the
\* dispatcher's default branch, and a dispatch that does not compile.
ABORT == "ABORT"
UNSUPPORTED == "UNSUPPORTED"
ILL_FORMED == "ILL_FORMED"

\* The overload of operator()<Element> that the forwarded call selects:
\* enable_if keeps one candidate per type, and the candidate is viable only
\* if it takes the number of arguments forwarded.
selected_overload(type) ==
    IF is_relationally_comparable(type)
    THEN IF ComparableOverloadArity = ForwardedArguments
         THEN "comparable" ELSE "none"
    ELSE IF UncomparableOverloadArity = ForwardedArguments
         THEN "uncomparable" ELSE "none"

\* Whether the dispatch in operator() compiles: every case of the
\* dispatcher instantiates operator()<Element> with the forwarded
\* arguments, whatever the tables hold, so each type of the closed set needs
\* a viable overload.
dispatch_builds(dispatcher) ==
    \A type \in dispatcher : selected_overload(type) # "none"

\* cudf::exp::type_dispatcher(type, element_relational_comparator<has_nulls>{},
\*                            lhs, lhs_index, rhs, rhs_index, size_of_nulls)
\* in a build with the given closed set: ILL_FORMED for every type when the
\* dispatch does not compile; else UNSUPPORTED from the default branch, a
\* weak_ordering from the comparable overload, or ABORT from release_assert
\* in the uncomparable overload.
type_dispatcher(dispatcher, type, has_nulls, lhs, lhs_element_index, rhs, rhs_element_index, size_of_nulls) ==
    IF ~dispatch_builds(dispatcher) THEN ILL_FORMED
    ELSE IF type \notin dispatcher THEN UNSUPPORTED
    ELSE IF selected_overload(type) = "comparable"
    THEN element_relational_comparator(has_nulls, type, lhs,
             lhs_element_index, rhs, rhs_element_index, size_of_nulls)
    ELSE ABORT

(***************************************************************************)
(* row_lexicographic_comparator<has_nulls>                                 *)
(* A comparator is a record [has_nulls, dispatcher, _lhs, _rhs,            *)
(* _size_of_nulls, _column_order]: has_nulls and the closed set of the     *)
(* type dispatcher are fixed by the build, the rest are the members.       *)
(* _column_order is [present, flags], present = FALSE for nullptr.         *)
(***************************************************************************)
nullptr == [present |-> FALSE, flags |-> <<>>]

\* bool ascending = (_column_order == nullptr) or
\*                  (_column_order[i] == order::ASCENDING)
ascending(cmp, i) ==
    (~cmp._column_order.present) \/ cmp._column_order.flags[i + 1] = ASCENDING

\* Faulty variant of loop_body: the descending branch does not swap the operands.
loop_body_no_swap(cmp, lhs_index, rhs_index, i) ==
    type_dispatcher(cmp.dispatcher, column(cmp._lhs, i).type,
                    cmp.has_nulls, column(cmp._lhs, i), lhs_index,
                    column(cmp._rhs, i), rhs_index, cmp._size_of_nulls)

\* The value of `state` after the dispatch of column i in the loop body.
loop_body(cmp, lhs_index, rhs_index, i) ==
    IF ascending(cmp, i)
    THEN type_dispatcher(cmp.dispatcher, column(cmp._lhs, i).type,
                         cmp.has_nulls, column(cmp._lhs, i), lhs_index,
                         column(cmp._rhs, i), rhs_index, cmp._size_of_nulls)
    ELSE type_dispatcher(cmp.dispatcher, column(cmp._lhs, i).type,
                         cmp.has_nulls, column(cmp._rhs, i), rhs_index,
                         column(cmp._lhs, i), lhs_index, cmp._size_of_nulls)

\* The validity bitmaps read by the dispatch of column i, as <<table, i>>:
\* both operands are tested before the comparison, in either operand order.
loop_body_validity_reads(cmp, i) ==
    IF /\ dispatch_builds(cmp.dispatcher)
       /\ column(cmp._lhs, i).type \in cmp.dispatcher
       /\ selected_overload(column(cmp._lhs, i).type) = "comparable"
    THEN (IF validity_queried(cmp.has_nulls, column(cmp._lhs, i))
          THEN {<<"lhs", i>>} ELSE {})
         \cup
         (IF validity_queried(cmp.has_nulls, column(cmp._rhs, i))
          THEN {<<"rhs", i>>} ELSE {})
    ELSE {}

\* Faulty variant of loop_continues: the loop never returns at a deciding column.
loop_continues_always(state) == state \in weak_ordering

\* if (state == weak_ordering::EQUIVALENT) { continue; }
loop_continues(state) == state = EQUIVALENT

\* return (state == weak_ordering::LESS) ? true : false;
verdict(state) == state = LESS

\* The frame of one invocation of operator(): its arguments, the loop
\* counter i, the last `state`, how it ended (pc) and what it returned (ret),
\* with the columns dispatched and the validity bitmaps read, in order.
idle_frame ==
    [pc |-> "idle", lhs_index |-> 0, rhs_index |-> 0, i |-> 0,
     state |-> EQUIVALENT, ret |-> FALSE, dispatched |-> <<>>, queried |-> {}]

\* The frame on entry to operator()(lhs_index, rhs_index); where the
\* dispatch in the body does not compile there is no operator() to run.
entry_frame(cmp, lhs_index, rhs_index) ==
    [idle_frame EXCEPT !.pc = IF dispatch_builds(cmp.dispatcher)
                              THEN "loop" ELSE "ill_formed",
                       !.lhs_index = lhs_index, !.rhs_index = rhs_index]

\* One pass of `for (size_type i = 0; i < _lhs.num_columns(); ++i)` on the
\* frame f: the loop test, the dispatch of column f.i and what follows it.
iterate(cmp, f) ==
    IF ~(f.i < num_columns(cmp._lhs))
    THEN [f EXCEPT !.pc = "returned", !.ret = FALSE]
    ELSE LET state == loop_body(cmp, f.lhs_index, f.rhs_index, f.i)
             g == [f EXCEPT !.state = state,
                            !.dispatched = Append(f.dispatched, f.i),
                            !.queried = f.queried \cup
                                        loop_body_validity_reads(cmp, f.i)]
         IN  IF state = ILL_FORMED THEN [f EXCEPT !.pc = "ill_formed"]
             ELSE IF state \in {ABORT, UNSUPPORTED}
             THEN [g EXCEPT !.pc = "aborted"]
             ELSE IF loop_continues(state) THEN [g EXCEPT !.i = f.i + 1]
             ELSE [g EXCEPT !.pc = "returned", !.ret = verdict(state)]

\* operator()(lhs_index, rhs_index) run to its end from the frame f.
RECURSIVE run_loop(_, _)
run_loop(cmp, f) == IF f.pc = "loop" THEN run_loop(cmp, iterate(cmp, f)) ELSE f

\* operator()(lhs_index, rhs_index): the final frame of the invocation.
row_lexicographic_comparator_call(cmp, lhs_index, rhs_index) ==
    run_loop(cmp, entry_frame(cmp, lhs_index, rhs_index))

(***************************************************************************)
(* Inputs: the element values and the column and table views the storage   *)
(* layer hands to the comparator.                                          *)
(***************************************************************************)
\* Stored element values: two ordered values, and -1, which in a FLOAT64
\* column is NaN; every relation between two elements (less, greater, same
\* value, unordered) occurs.
OrderedValues == {0, 1}
ElementValues == OrderedValues \cup {NaN}

\* The column views of a type with `rows` rows and elements in `values`,
\* with or without a validity bitmap; the slot of a null element holds 0.
\* The elements of an OPAQUE column are never read; one view stands for them.
ColumnViews(type, rows, with_validity, values) ==
    IF type = OPAQUE
    THEN {[type |-> OPAQUE, nullable |-> FALSE, valid |-> <<>>,
           data |-> [r \in 1..rows |-> 0]]}
    ELSE IF with_validity
    THEN {[type |-> type, nullable |-> TRUE,
           valid |-> [r \in 1..rows |-> c[r].valid],
           data |-> [r \in 1..rows |-> c[r].value]] :
              c \in [1..rows ->
                       {[valid |-> TRUE, value |-> x] : x \in values}
                       \cup {[valid |-> FALSE, value |-> 0]}]}
    ELSE {[type |-> type, nullable |-> FALSE, valid |-> <<>>, data |-> d] :
              d \in [1..rows -> values]}

\* Pairs of one-row columns of one type that agree on having a bitmap:
\* without bitmaps over all element values, with bitmaps over the ordered
\* values and null.
PairedColumns ==
    (ColumnViews(FLOAT64, 1, FALSE, ElementValues)
         \X ColumnViews(FLOAT64, 1, FALSE, ElementValues))
    \cup (ColumnViews(FLOAT64, 1, TRUE, OrderedValues)
         \X ColumnViews(FLOAT64, 1, TRUE, OrderedValues))
    \cup (ColumnViews(OPAQUE, 1, FALSE, {})
         \X ColumnViews(OPAQUE, 1, FALSE, {}))

\* Pairs of one-row columns of one type of which exactly one has a bitmap.
MixedColumns ==
    UNION {ColumnViews(FLOAT64, 1, n, ElementValues)
               \X ColumnViews(FLOAT64, 1, ~n, ElementValues) : n \in BOOLEAN}

\* The pairs of one-row columns of the concurrent runs: columns with
\* bitmaps whose element is null or 0, and a column without ordering.
ThreadColumns ==
    (ColumnViews(FLOAT64, 1, TRUE, {0}) \X ColumnViews(FLOAT64, 1, TRUE, {0}))
    \cup (ColumnViews(OPAQUE, 1, FALSE, {})
         \X ColumnViews(OPAQUE, 1, FALSE, {}))

\* Columns without rows: only the schema of a table.
SchemaTables ==
    UNION {[1..n -> UNION {ColumnViews(t, 0, FALSE, {}) :
                               t \in {FLOAT64, OPAQUE}}] : n \in 0..MaxCols}

(***************************************************************************)
(* State.                                                                  *)
(***************************************************************************)
VARIABLES
    tableA,   \* the table view passed as lhs
    tableB,   \* the table view passed as rhs
    ctor,     \* "pending", "constructed", or "logic_error" (CUDF_EXPECTS threw)
    cmp,      \* the comparator: its build and the four private members
    frames    \* per thread, the frame of its invocation of operator()

vars == <<tableA, tableB, ctor, cmp, frames>>

Threads == 1..NumThreads

\* The comparator before its members are initialised.
no_comparator ==
    [has_nulls |-> TRUE, dispatcher |-> {}, _lhs |-> <<>>, _rhs |-> <<>>,
     _size_of_nulls |-> LOWEST, _column_order |-> nullptr]

InitRest ==
    /\ ctor = "pending"
    /\ cmp = no_comparator
    /\ frames = [t \in Threads |-> idle_frame]

\* Two one-row tables of one schema, of 0..MaxCols columns.
InitPair ==
    /\ \E n \in 0..MaxCols : \E p \in [1..n -> PairedColumns] :
          /\ tableA = [i \in 1..n |-> p[i][1]]
          /\ tableB = [i \in 1..n |-> p[i][2]]
    /\ InitRest

\* Two one-row, one-column tables; one column has a bitmap, the other none.
InitMixed ==
    /\ \E p \in MixedColumns : tableA = <<p[1]>> /\ tableB = <<p[2]>>
    /\ InitRest

\* One table of one column and NumRows rows, compared with itself.
InitOne ==
    /\ \E t \in {INT32, FLOAT64, OPAQUE} : \E n \in BOOLEAN :
          \E c \in ColumnViews(t, NumRows, n, ElementValues) : tableA = <<c>>
    /\ tableB = tableA
    /\ InitRest

\* Two tables without rows, of any column counts and column types.
InitSchema ==
    /\ tableA \in SchemaTables
    /\ tableB \in SchemaTables
    /\ InitRest

Init == InitPair \/ InitMixed \/ InitOne \/ InitSchema

(***************************************************************************)
(* Actions.                                                                *)
(***************************************************************************)
\* Faulty variant of columns_match: the column counts are not compared.
columns_match_unchecked(lhs, rhs) == TRUE

\* The condition of CUDF_EXPECTS in the constructor.
columns_match(lhs, rhs) == num_columns(lhs) = num_columns(rhs)

\* The column_order arguments: nullptr, or one flag per column of a row.
ColumnOrders(table) ==
    {nullptr} \cup {[present |-> TRUE, flags |-> fl] :
                       fl \in [1..num_columns(table) -> order]}

\* row_lexicographic_comparator<has_nulls>(lhs, rhs, size_of_nulls,
\* column_order): the members are initialised, then CUDF_EXPECTS throws
\* cudf::logic_error unless the column counts agree.
Construct ==
    /\ ctor = "pending"
    /\ \E has_nulls \in BOOLEAN, dispatcher \in Dispatchers,
          size_of_nulls \in null_size, column_order \in ColumnOrders(tableA) :
          IF columns_match(tableA, tableB)
          THEN /\ ctor' = "constructed"
               /\ cmp' = [has_nulls |-> has_nulls,
                          dispatcher |-> dispatcher, _lhs |-> tableA,
                          _rhs |-> tableB, _size_of_nulls |-> size_of_nulls,
                          _column_order |-> column_order]
          ELSE /\ ctor' = "logic_error"
               /\ cmp' = cmp
    /\ UNCHANGED <<tableA, tableB, frames>>

\* The row indices a caller may pass for the two tables.
RowsOf(table) == 0..(num_rows(table) - 1)

\* One whole invocation of operator()(lhs_index, rhs_index) by thread 1.
Call ==
    /\ ctor = "constructed"
    /\ frames[1].pc = "idle"
    /\ \E lhs_index \in RowsOf(cmp._lhs), rhs_index \in RowsOf(cmp._rhs) :
          frames' = [frames EXCEPT ![1] =
              row_lexicographic_comparator_call(cmp, lhs_index, rhs_index)]
    /\ UNCHANGED <<tableA, tableB, ctor, cmp>>

Next == Construct \/ Call

Spec == Init /\ [][Next]_vars

(***************************************************************************)
(* Concurrent invocations: every device thread runs operator() on the one  *)
(* comparator, one loop pass at a time, in any interleaving.               *)
(***************************************************************************)
\* Two one-row tables of one schema for the concurrent runs.
InitThreads ==
    /\ \E n \in 0..MaxCols : \E p \in [1..n -> ThreadColumns] :
          /\ tableA = [i \in 1..n |-> p[i][1]]
          /\ tableB = [i \in 1..n |-> p[i][2]]
    /\ InitRest

\* release_assert has stopped the kernel.
Aborted == \E t \in Threads : frames[t].pc = "aborted"

\* Thread t enters operator()(lhs_index, rhs_index).
Invoke(t) ==
    /\ ctor = "constructed"
    /\ ~Aborted
    /\ frames[t].pc = "idle"
    /\ \E lhs_index \in RowsOf(cmp._lhs), rhs_index \in RowsOf(cmp._rhs) :
          frames' = [frames EXCEPT ![t] = entry_frame(cmp, lhs_index, rhs_index)]
    /\ UNCHANGED <<tableA, tableB, ctor, cmp>>

\* Faulty variant of step: the loop counter is one variable shared by the threads.
step_shared_counter(c, fs, t) ==
    [u \in DOMAIN fs |->
        IF u = t THEN iterate(c, fs[t])
        ELSE IF fs[u].pc = "loop" THEN [fs[u] EXCEPT !.i = iterate(c, fs[t]).i]
        ELSE fs[u]]

\* The frames after thread t ran one loop pass: i, state and the return
\* value are locals of the invocation.
step(c, fs, t) == [fs EXCEPT ![t] = iterate(c, fs[t])]

\* Thread t runs one pass of the loop of operator().
Step(t) ==
    /\ ~Aborted
    /\ frames[t].pc = "loop"
    /\ frames' = step(cmp, frames, t)
    /\ UNCHANGED <<tableA, tableB, ctor, cmp>>

NextThreads ==
    \/ Construct
    \/ \E t \in Threads : Invoke(t)
    \/ \E t \in Threads : Step(t)

SpecThreads == InitThreads /\ [][NextThreads]_vars

(***************************************************************************)
(* Vocabulary of the properties.                                           *)
(***************************************************************************)
\* The invocation made by thread 1 under Spec.
TheCall == frames[1]

\* f is the frame of an invocation that was made: operator() was entered,
\* which takes a build in which it compiles.
Invoked(f) == f.pc \notin {"idle", "ill_formed"}

Columns(c) == 0..(num_columns(c._lhs) - 1)

\* The element of row `row` of a column is null.
ElementIsNull(col, row) == col.nullable /\ ~col.valid[row + 1]

\* No element of row a of _lhs and of row b of _rhs is null.
NoNulls(c, a, b) ==
    \A j \in Columns(c) : /\ ~ElementIsNull(column(c._lhs, j), a)
                          /\ ~ElementIsNull(column(c._rhs, j), b)

AllComparable(c) ==
    \A j \in Columns(c) : is_relationally_comparable(column(c._lhs, j).type)

\* How the element of row a of _lhs compares with that of row b of _rhs at
\* column j, in this operand order.
ColumnOrdering(c, a, b, j) ==
    type_dispatcher(c.dispatcher, column(c._lhs, j).type, c.has_nulls,
                    column(c._lhs, j), a, column(c._rhs, j), b,
                    c._size_of_nulls)

\* Column j is the first column at which the two rows are not EQUIVALENT.
FirstNonEquivalent(c, a, b, j) ==
    /\ j \in Columns(c)
    /\ ColumnOrdering(c, a, b, j) \in {LESS, GREATER}
    /\ \A h \in 0..(j - 1) : ColumnOrdering(c, a, b, h) = EQUIVALENT

AllEquivalent(c, a, b) ==
    \A j \in Columns(c) : ColumnOrdering(c, a, b, j) = EQUIVALENT

\* isLess(a, b) of comparator c.
IsLess(c, a, b) == row_lexicographic_comparator_call(c, a, b).ret

\* The comparator over the same two tables in the other order.
Reversed(c) == [c EXCEPT !._lhs = c._rhs, !._rhs = c._lhs]

\* Lexicographic less-than of the two value tuples, earlier columns equal.
LexLessEqual(c, a, b) ==
    \E i \in Columns(c) :
        /\ native_less(column(c._lhs, i).type, data(column(c._lhs, i), a),
                       data(column(c._rhs, i), b))
        /\ \A j \in 0..(i - 1) :
               native_equal(column(c._lhs, j).type, data(column(c._lhs, j), a),
                            data(column(c._rhs, j), b))

OtherPolicy(c) ==
    [c EXCEPT !._size_of_nulls = IF @ = LOWEST THEN HIGHEST ELSE LOWEST]

(***************************************************************************)
(* C1                                                                      *)
(***************************************************************************)
\* C1: construction raises logic_error exactly when the column counts of the
\* two tables differ, whatever the null policy, the column order and the
\* column types; no invocation is ever made on a comparator that was not
\* constructed.
C1_ConstructionFailsIffCountsDiffer ==
    /\ ctor # "pending" =>
          (ctor = "logic_error" <=> num_columns(tableA) # num_columns(tableB))
    /\ ctor # "constructed" => \A t \in Threads : frames[t].pc = "idle"

\* Construction succeeded on two tables whose column types differ, with a
\* column order present.
C1_Witness ==
    /\ ctor = "constructed"
    /\ num_columns(tableA) = MaxCols
    /\ \E j \in 1..MaxCols : tableA[j].type # tableB[j].type
    /\ cmp._column_order.present
    /\ cmp._size_of_nulls = HIGHEST

(***************************************************************************)
(* C2                                                                      *)
(***************************************************************************)
C2_Case ==
    /\ Invoked(TheCall)
    /\ ~cmp._column_order.present
    /\ AllComparable(cmp)
    /\ NoNulls(cmp, TheCall.lhs_index, TheCall.rhs_index)

\* C2: without nulls and without a column order, isLess is the lexicographic
\* less-than of the two value tuples: true exactly when some column holds a
\* smaller value in the left row and every earlier column holds equal
\* values; the null policy does not change the result.
C2_LexicographicWithEquality ==
    C2_Case =>
        /\ TheCall.pc = "returned"
        /\ TheCall.ret = LexLessEqual(cmp, TheCall.lhs_index, TheCall.rhs_index)
        /\ TheCall.ret =
               IsLess(OtherPolicy(cmp), TheCall.lhs_index, TheCall.rhs_index)

(***************************************************************************)
(* C3                                                                      *)
(***************************************************************************)
\* Column i is the first non-equivalent column of rows a and b, and holds a
\* null in a and a value in b.
C3_NullMeetsValue(c, a, b, i) ==
    /\ FirstNonEquivalent(c, a, b, i)
    /\ ElementIsNull(column(c._lhs, i), a)
    /\ ~ElementIsNull(column(c._rhs, i), b)

\* The verdicts of isLess(a, b) and isLess(b, a).
C3_Verdicts(c, a, b) ==
    <<IsLess(c, a, b), IsLess(Reversed(c), b, a)>>

\* Both rows hold a null at a dispatched column: the column is EQUIVALENT and
\* the call goes on to the next column, or returns false after the last one.
C3_TwoNullsProceed(c, f) ==
    \A j \in Columns(c) :
        ( /\ j + 1 \in DOMAIN f.dispatched
          /\ ElementIsNull(column(c._lhs, j), f.lhs_index)
          /\ ElementIsNull(column(c._rhs, j), f.rhs_index) )
        => /\ ColumnOrdering(c, f.lhs_index, f.rhs_index, j) = EQUIVALENT
           /\ IF j + 1 < num_columns(c._lhs)
              THEN j + 2 \in DOMAIN f.dispatched
              ELSE f.pc = "returned" /\ ~f.ret

\* C3 as stated: for every direction flag of the deciding column, the row
\* with the null is less under LOWEST and greater under HIGHEST.
C3_NullOrderEveryDirection ==
    (ctor = "constructed" /\ Invoked(TheCall)) =>
        /\ \A i \in Columns(cmp) :
              C3_NullMeetsValue(cmp, TheCall.lhs_index, TheCall.rhs_index, i)
              => C3_Verdicts(cmp, TheCall.lhs_index, TheCall.rhs_index) =
                    IF cmp._size_of_nulls = LOWEST
                    THEN <<TRUE, FALSE>> ELSE <<FALSE, TRUE>>
        /\ C3_TwoNullsProceed(cmp, TheCall)

\* C3 amended: with has_nulls = true and the deciding column ascending, the
\* row with the null is less under LOWEST and greater under HIGHEST; with the
\* deciding column descending the two verdicts are exchanged.  Two nulls at
\* one column are EQUIVALENT under both policies and the next column is
\* compared.
C3_NullOrderByDirection ==
    (ctor = "constructed" /\ Invoked(TheCall) /\ cmp.has_nulls) =>
        /\ \A i \in Columns(cmp) :
              C3_NullMeetsValue(cmp, TheCall.lhs_index, TheCall.rhs_index, i)
              => C3_Verdicts(cmp, TheCall.lhs_index, TheCall.rhs_index) =
                    IF (cmp._size_of_nulls = LOWEST) <=> ascending(cmp, i)
                    THEN <<TRUE, FALSE>> ELSE <<FALSE, TRUE>>
        /\ C3_TwoNullsProceed(cmp, TheCall)

\* A call in which the first column holds two nulls and the second, which is
\* descending, a null against a value.
C3_Witness ==
    /\ ctor = "constructed"
    /\ TheCall.pc = "returned"
    /\ cmp.has_nulls
    /\ num_columns(cmp._lhs) = 2
    /\ ElementIsNull(column(cmp._lhs, 0), TheCall.lhs_index)
    /\ ElementIsNull(column(cmp._rhs, 0), TheCall.rhs_index)
    /\ C3_NullMeetsValue(cmp, TheCall.lhs_index, TheCall.rhs_index, 1)
    /\ ~ascending(cmp, 1)
    /\ cmp._size_of_nulls = LOWEST
    /\ ~TheCall.ret

(***************************************************************************)
(* C4                                                                      *)
(***************************************************************************)
\* C4 as stated: isLess(r, r) is false for every row index r and every
\* constructed comparator, over one table or over two.
C4_IrreflexiveAnyTables ==
    (Invoked(TheCall) /\ TheCall.lhs_index = TheCall.rhs_index) =>
        ~TheCall.ret

\* C4 amended: for a comparator over one table (tableA = tableB),
\* isLess(r, r) is never true, and it returns false whenever every column is
\* of a relationally comparable type.
C4_IrreflexiveOneTable ==
    ( /\ Invoked(TheCall)
      /\ TheCall.lhs_index = TheCall.rhs_index
      /\ cmp._lhs = cmp._rhs )
    => /\ ~TheCall.ret
       /\ AllComparable(cmp) => TheCall.pc = "returned"

\* isLess(r, r) returned on a two-column table compared with itself, with a
\* null, a descending column and the HIGHEST policy.
C4_Witness ==
    /\ TheCall.pc = "returned"
    /\ TheCall.lhs_index = TheCall.rhs_index
    /\ cmp._lhs = cmp._rhs
    /\ num_columns(cmp._lhs) = 2
    /\ cmp.has_nulls
    /\ ElementIsNull(column(cmp._lhs, 0), TheCall.lhs_index)
    /\ ~ascending(cmp, 1)
    /\ cmp._size_of_nulls = HIGHEST
    /\ TheCall.dispatched = <<0, 1>>

(***************************************************************************)
(* C5                                                                      *)
(***************************************************************************)
C5_Equivalent(c, a, b) == ~IsLess(c, a, b) /\ ~IsLess(c, b, a)

\* C5: over one table isLess is a strict weak ordering of the row indices:
\* transitive, asymmetric, and with a transitive equivalence.
C5_StrictWeakOrdering ==
    (ctor = "constructed" /\ cmp._lhs = cmp._rhs) =>
        \A a \in RowsOf(cmp._lhs), b \in RowsOf(cmp._lhs),
           c \in RowsOf(cmp._lhs) :
            /\ (IsLess(cmp, a, b) /\ IsLess(cmp, b, c)) => IsLess(cmp, a, c)
            /\ IsLess(cmp, a, b) => ~IsLess(cmp, b, a)
            /\ (C5_Equivalent(cmp, a, b) /\ C5_Equivalent(cmp, b, c))
                   => C5_Equivalent(cmp, a, c)

(***************************************************************************)
(* C6                                                                      *)
(***************************************************************************)
C6_Flag(c, j) ==
    IF c._column_order.present THEN c._column_order.flags[j + 1] ELSE ASCENDING

\* The comparator that differs from c only in the flag of column k.
C6_Flipped(c, k) ==
    [c EXCEPT !._column_order =
        [present |-> TRUE,
         flags |-> [j \in 1..num_columns(c._lhs) |->
                       IF j = k + 1
                       THEN IF C6_Flag(c, k) = ASCENDING
                            THEN DESCENDING ELSE ASCENDING
                       ELSE C6_Flag(c, j - 1)]]]

\* C6: against the comparator with the flag of column k flipped, the verdict
\* is the same when an earlier column is the first non-equivalent one, the
\* opposite when column k is, and false for both when every column is
\* EQUIVALENT.
C6_DirectionFlag ==
    (ctor = "constructed" /\ Invoked(TheCall)) =>
        \A k \in Columns(cmp) :
            LET a == TheCall.lhs_index
                b == TheCall.rhs_index
                other == row_lexicographic_comparator_call(
                             C6_Flipped(cmp, k), a, b)
                both_return == TheCall.pc = "returned" /\ other.pc = "returned"
            IN  /\ \A j \in 0..(k - 1) : FirstNonEquivalent(cmp, a, b, j)
                       => both_return /\ other.ret = TheCall.ret
                /\ FirstNonEquivalent(cmp, a, b, k)
                       => both_return /\ other.ret # TheCall.ret
                /\ AllEquivalent(cmp, a, b)
                       => both_return /\ ~other.ret /\ ~TheCall.ret

\* A call that the second, descending column decided as less.
C6_Witness ==
    /\ ctor = "constructed"
    /\ TheCall.pc = "returned"
    /\ num_columns(cmp._lhs) = 2
    /\ FirstNonEquivalent(cmp, TheCall.lhs_index, TheCall.rhs_index, 1)
    /\ cmp._column_order.present
    /\ cmp._column_order.flags = <<ASCENDING, DESCENDING>>
    /\ TheCall.ret

(***************************************************************************)
(* C10                                                                     *)
(***************************************************************************)
\* The ordering of two stored values by the element type's operator<.
C10_NativeOrdering(type, x, y) ==
    IF native_less(type, x, y) THEN LESS
    ELSE IF native_less(type, y, x) THEN GREATER
    ELSE EQUIVALENT

\* The operands of the element comparator at column j: <<column, row>> of the
\* left and of the right operand.
C10_Operands(c, a, b, j) ==
    IF ascending(c, j)
    THEN <<column(c._lhs, j), a, column(c._rhs, j), b>>
    ELSE <<column(c._rhs, j), b, column(c._lhs, j), a>>

C10_Native(c, a, b, j) ==
    LET o == C10_Operands(c, a, b, j)
    IN  C10_NativeOrdering(column(c._lhs, j).type, data(o[1], o[2]),
                           data(o[3], o[4]))

\* Validity is read only with has_nulls = true and only from a view that has
\* a bitmap.
C10_QueriesOnlyNullable(c, f) ==
    \A q \in f.queried :
        /\ c.has_nulls
        /\ nullable(column(IF q[1] = "lhs" THEN c._lhs ELSE c._rhs, q[2]))

C10_DispatchedComparable(c, f) ==
    {j \in Columns(c) : /\ j + 1 \in DOMAIN f.dispatched
                        /\ is_relationally_comparable(column(c._lhs, j).type)}

\* C10 as stated: validity is read only with has_nulls = true from a view
\* with a bitmap, and at a column where has_nulls = false or an operand has
\* no bitmap the result is the native ordering of the two stored values.
C10_NoBitmapMeansNative ==
    (ctor = "constructed" /\ Invoked(TheCall)) =>
        /\ C10_QueriesOnlyNullable(cmp, TheCall)
        /\ \A j \in C10_DispatchedComparable(cmp, TheCall) :
              ( \/ ~cmp.has_nulls
                \/ ~nullable(column(cmp._lhs, j))
                \/ ~nullable(column(cmp._rhs, j)) )
              => loop_body(cmp, TheCall.lhs_index, TheCall.rhs_index, j) =
                     C10_Native(cmp, TheCall.lhs_index, TheCall.rhs_index, j)

\* C10 amended: validity is read only with has_nulls = true from a view with
\* a bitmap; an operand whose validity is not read is treated as non-null;
\* the result is the native ordering of the two stored values when neither
\* operand's validity is read or the operand that is read is not null, and
\* is the null policy's verdict when the operand that is read is null.
C10_UnreadMeansNonNull ==
    (ctor = "constructed" /\ Invoked(TheCall)) =>
        /\ C10_QueriesOnlyNullable(cmp, TheCall)
        /\ \A j \in C10_DispatchedComparable(cmp, TheCall) :
              LET o == C10_Operands(cmp, TheCall.lhs_index,
                                    TheCall.rhs_index, j)
                  read_l == cmp.has_nulls /\ nullable(o[1])
                  read_r == cmp.has_nulls /\ nullable(o[3])
                  null_l == read_l /\ ElementIsNull(o[1], o[2])
                  null_r == read_r /\ ElementIsNull(o[3], o[4])
                  state == loop_body(cmp, TheCall.lhs_index,
                                     TheCall.rhs_index, j)
              IN  (~read_l \/ ~read_r) =>
                      state = IF null_l
                              THEN (IF cmp._size_of_nulls = LOWEST
                                    THEN LESS ELSE GREATER)
                              ELSE IF null_r
                              THEN (IF cmp._size_of_nulls = LOWEST
                                    THEN GREATER ELSE LESS)
                              ELSE C10_Native(cmp, TheCall.lhs_index,
                                              TheCall.rhs_index, j)

\* A call with has_nulls = true in which tableA's column has no bitmap and
\* tableB's column holds a null.
C10_Witness ==
    /\ ctor = "constructed"
    /\ TheCall.pc = "returned"
    /\ cmp.has_nulls
    /\ ~nullable(column(cmp._lhs, 0))
    /\ ElementIsNull(column(cmp._rhs, 0), TheCall.rhs_index)
    /\ TheCall.queried = {<<"rhs", 0>>}

(***************************************************************************)
(* C7                                                                      *)
(***************************************************************************)
\* The comparison of the rows of frame f touches a column whose element
\* type has no relational ordering: the rows are EQUIVALENT at every earlier
\* column, so the walk over the columns reaches it.
C7_TouchesUncomparable(c, f) ==
    \E j \in Columns(c) :
        /\ ~is_relationally_comparable(column(c._lhs, j).type)
        /\ \A h \in 0..(j - 1) :
               /\ is_relationally_comparable(column(c._lhs, h).type)
               /\ element_relational_comparator(
                      c.has_nulls, column(c._lhs, h).type,
                      column(c._lhs, h), f.lhs_index,
                      column(c._rhs, h), f.rhs_index,
                      c._size_of_nulls) = EQUIVALENT

\* C7: an invocation of isLess whose comparison touches a column of a type
\* without relational ordering ends in the abort of the whole operation,
\* in every build, and in nothing else.
C7_UncomparableAborts ==
    \A t \in Threads :
        (/\ frames[t].pc \notin {"idle", "loop"}
         /\ C7_TouchesUncomparable(cmp, frames[t]))
            => frames[t].pc = "aborted"

(***************************************************************************)
(* C8                                                                      *)
(***************************************************************************)
\* Every invocation, at every step of every interleaving, is where it is
\* when run alone, and ends with the frame (verdict included) it ends with
\* when run alone.
C8_AsWhenAlone ==
    \A t \in Threads :
        frames[t].pc # "idle" =>
            run_loop(cmp, frames[t]) =
                row_lexicographic_comparator_call(
                    cmp, frames[t].lhs_index, frames[t].rhs_index)

\* A step of an invocation leaves the tables, the comparator and the frames
\* of the other threads as they were.
C8_StepWritesOwnFrameOnly ==
    ctor = "constructed" =>
        /\ UNCHANGED <<tableA, tableB, ctor, cmp>>
        /\ \E t \in Threads : \A u \in Threads \ {t} : frames'[u] = frames[u]

\* C8: concurrent invocations return what they return alone, and none
\* writes to the column data, the validity bitmaps, the column order or the
\* comparator.
C8_ConcurrentInvocations ==
    [](C8_AsWhenAlone /\ cmp \in {no_comparator} \cup
           {[cmp EXCEPT !._lhs = tableA, !._rhs = tableB]})
    /\ [][C8_StepWritesOwnFrameOnly]_vars

\* Two invocations in flight at different columns, then both returned.
C8_Witness ==
    /\ frames[1].pc = "returned"
    /\ frames[2].pc = "loop"
    /\ frames[2].i = 1
    /\ frames[1].ret
    /\ frames[1].dispatched = <<0, 1>>
    /\ cmp.has_nulls
    /\ frames[1].queried # {}

(***************************************************************************)
(* C9                                                                      *)
(***************************************************************************)
\* Columns 0 .. Len - 1 in increasing order, each once.
C9_InOrder(f) ==
    f.dispatched = [j \in 1..Len(f.dispatched) |-> j - 1]

\* C9: the columns are dispatched in increasing order from 0, each once; the
\* call returns at the first column that is not EQUIVALENT without
\* dispatching a later one, and returns false after all columns when every
\* column is EQUIVALENT.
C9_DispatchOrder ==
    \A t \in Threads :
        LET f == frames[t]
            n == Len(f.dispatched)
            at(j) == loop_body(cmp, f.lhs_index, f.rhs_index, j)
        IN  /\ C9_InOrder(f)
            /\ n <= num_columns(cmp._lhs)
            /\ \A j \in 0..(n - 2) : at(j) = EQUIVALENT
            /\ f.pc = "loop" =>
                   /\ n = f.i
                   /\ \A j \in 0..(n - 1) : at(j) = EQUIVALENT
            /\ f.pc = "returned" =>
                   \/ /\ n > 0
                      /\ at(n - 1) \in {LESS, GREATER}
                      /\ f.ret = (at(n - 1) = LESS)
                   \/ /\ n = num_columns(cmp._lhs)
                      /\ \A j \in 0..(n - 1) : at(j) = EQUIVALENT
                      /\ ~f.ret

\* A call that returned at column 0 although column 1 has no ordering.
C9_Witness ==
    /\ frames[1].pc = "returned"
    /\ frames[1].dispatched = <<0>>
    /\ num_columns(cmp._lhs) = 2
    /\ column(cmp._lhs, 1).type = OPAQUE
    /\ frames[2].pc = "returned"

====
